---- MODULE Spec2Model ----
(***************************************************************************)
(* The booking engine of hotel.py: the rooms and bookings tables of        *)
(* data/hotel.db, parse_date, available_rooms, create_booking and          *)
(* cancel_booking.                                                         *)
(*                                                                         *)
(* Date strings are sequences of character codes, because the engine       *)
(* validates a date by parsing it (strptime) but stores and compares the   *)
(* raw text (SQLite TEXT columns, BINARY collation).                       *)
(*                                                                         *)
(* Spec      calls run one at a time, each from start to finish.           *)
(* SpecConc  two front-ends (the console of hotel.py and hotel_gui.py)     *)
(*           share the database file; every call opens its own connection  *)
(*           and the steps of two calls interleave at the granularity of   *)
(*           a database statement.                                         *)
(***************************************************************************)
EXTENDS Integers, Sequences, FiniteSets, TLC

VARIABLES rooms, bookings, pc, call, ret

vars == <<rooms, bookings, pc, call, ret>>

\* Bound of the model: the ledger never holds more bookings than this.
MaxBookings == 2

------------------------------------------------------------------------------
(* Text.  A string is a sequence of character codes.                       *)

Chr0 == 48
ChrDash == 45
ChrSpace == 32

\* The code points of the digit zero of every decimal digit system that the
\* regular expression \d (a str pattern) matches and int() converts: ASCII
\* "0", ARABIC-INDIC DIGIT ZERO (1632), DEVANAGARI DIGIT ZERO (2406),
\* FULLWIDTH DIGIT ZERO (65296), ...  The digits 0..9 of a system are the ten
\* consecutive code points from its zero (Unicode 14.0.0, category Nd).
DigitZeros ==
    {48, 1632, 1776, 1984, 2406, 2534, 2662, 2790,
     2918, 3046, 3174, 3302, 3430, 3558, 3664, 3792,
     3872, 4160, 4240, 6112, 6160, 6470, 6608, 6784,
     6800, 6992, 7088, 7232, 7248, 42528, 43216, 43264,
     43472, 43504, 43600, 44016, 65296, 66720, 68912, 69734,
     69872, 69942, 70096, 70384, 70736, 70864, 71248, 71360,
     71472, 71904, 72016, 72784, 73040, 73120, 92768, 92864,
     93008, 120782, 120792, 120802, 120812, 120822, 123200, 123632,
     125264, 130032}

\* \d: any decimal digit, ASCII or not.
IsDigit(c) == \E z \in DigitZeros : c \in z .. (z + 9)
\* The value int() gives the digit.
DigitVal(c) == c - (CHOOSE z \in DigitZeros : c \in z .. (z + 9))

\* "2024-01-10", "2024-01-12", "2024-01-15": zero-padded ISO dates.
D_2024_01_10 == <<50, 48, 50, 52, 45, 48, 49, 45, 49, 48>>
D_2024_01_12 == <<50, 48, 50, 52, 45, 48, 49, 45, 49, 50>>
D_2024_01_15 == <<50, 48, 50, 52, 45, 48, 49, 45, 49, 53>>
\* "2024-1-12": the same day as "2024-01-12", month not padded.
D_2024_1_12 == <<50, 48, 50, 52, 45, 49, 45, 49, 50>>
\* "2024-02-30": matches the format, is no calendar date.
D_2024_02_30 == <<50, 48, 50, 52, 45, 48, 50, 45, 51, 48>>
\* "2024-13-01": does not match the format.
D_2024_13_01 == <<50, 48, 50, 52, 45, 49, 51, 45, 48, 49>>

\* The date strings the callers supply.
DateStrs ==
    {D_2024_01_10, D_2024_01_12, D_2024_1_12, D_2024_01_15,
     D_2024_02_30, D_2024_13_01}

\* The zero-padded, well-formed ones: the inputs of the concurrent callers.
IsoDateStrs == {D_2024_01_10, D_2024_01_12, D_2024_01_15}

\* The (check_in, check_out) arguments of the calls made one at a time: every
\* pair of strings that parse, and pairs with a string that does not.
DateArgs ==
    ((IsoDateStrs \cup {D_2024_1_12}) \X (IsoDateStrs \cup {D_2024_1_12}))
    \cup {<<D_2024_02_30, D_2024_01_12>>, <<D_2024_01_10, D_2024_13_01>>,
          <<D_2024_13_01, D_2024_02_30>>}

\* SQLite's comparison of two TEXT values under BINARY collation: memcmp of
\* the common prefix, then the shorter string first.  The database stores
\* UTF-8, whose byte order is the order of the code points.
RECURSIVE TextCmp(_, _, _)
TextCmp(a, b, i) ==
    IF i > Len(a) /\ i > Len(b) THEN 0
    ELSE IF i > Len(a) THEN -1
    ELSE IF i > Len(b) THEN 1
    ELSE IF a[i] < b[i] THEN -1
    ELSE IF a[i] > b[i] THEN 1
    ELSE TextCmp(a, b, i + 1)

\* TextCmp on the callers' strings, computed once.
TextOrder == [a \in DateStrs |-> [b \in DateStrs |-> TextCmp(a, b, 1)]]

\* The SQL operators <= and >= on two TEXT values.
TextLe(a, b) == TextOrder[a][b] <= 0
TextGe(a, b) == TextOrder[a][b] >= 0

------------------------------------------------------------------------------
(* parse_date: datetime.strptime(date_str, "%Y-%m-%d").date()              *)

\* Length matched by %m = (1[0-2]|0[1-9]|[1-9]) at position i, 0 for none.
\* The alternatives are tried in order; a "-" must follow, and no two
\* alternatives can both be followed by one.  The classes [0-2] and [1-9]
\* list ASCII characters; only \d, of %Y and %d, matches other digits.
MatchMonth(s, i) ==
    IF i + 1 <= Len(s) /\ s[i] = Chr0 + 1 /\ s[i + 1] \in Chr0 .. (Chr0 + 2) THEN 2
    ELSE IF i + 1 <= Len(s) /\ s[i] = Chr0 /\ s[i + 1] \in (Chr0 + 1) .. (Chr0 + 9) THEN 2
    ELSE IF i <= Len(s) /\ s[i] \in (Chr0 + 1) .. (Chr0 + 9) THEN 1
    ELSE 0

\* Length matched by %d = (3[0-1]|[1-2]\d|0[1-9]|[1-9]| [1-9]) at position i.
MatchDay(s, i) ==
    IF i + 1 <= Len(s) /\ s[i] = Chr0 + 3 /\ s[i + 1] \in Chr0 .. (Chr0 + 1) THEN 2
    ELSE IF i + 1 <= Len(s) /\ s[i] \in (Chr0 + 1) .. (Chr0 + 2) /\ IsDigit(s[i + 1]) THEN 2
    ELSE IF i + 1 <= Len(s) /\ s[i] = Chr0 /\ s[i + 1] \in (Chr0 + 1) .. (Chr0 + 9) THEN 2
    ELSE IF i <= Len(s) /\ s[i] \in (Chr0 + 1) .. (Chr0 + 9) THEN 1
    ELSE IF i + 1 <= Len(s) /\ s[i] = ChrSpace /\ s[i + 1] \in (Chr0 + 1) .. (Chr0 + 9) THEN 2
    ELSE 0

\* int() of the decimal digits s[i .. i+n-1]; a leading space counts as 0.
RECURSIVE ToInt(_, _, _)
ToInt(s, i, n) ==
    IF n = 0 THEN 0
    ELSE ToInt(s, i, n - 1) * 10
         + (IF IsDigit(s[i + n - 1]) THEN DigitVal(s[i + n - 1]) ELSE 0)

IsLeap(y) == y % 4 = 0 /\ (y % 100 # 0 \/ y % 400 = 0)

DaysInMonth(y, m) ==
    IF m = 2 THEN (IF IsLeap(y) THEN 29 ELSE 28)
    ELSE IF m \in {4, 6, 9, 11} THEN 30
    ELSE 31

\* The date a string parses to, or ok = FALSE where strptime raises ValueError.
BadDate == [ok |-> FALSE, y |-> 0, m |-> 0, d |-> 0]

\* datetime.strptime(s, "%Y-%m-%d").date(): the format's regular expression
\* must match the whole string, and the fields must name a calendar date.
strptime_date(s) ==
    IF ~(Len(s) >= 5 /\ \A i \in 1 .. 4 : IsDigit(s[i])) \/ s[5] # ChrDash
    THEN BadDate
    ELSE LET ml == MatchMonth(s, 6) IN
         IF ml = 0 \/ 6 + ml > Len(s) \/ s[6 + ml] # ChrDash THEN BadDate
         ELSE LET dl == MatchDay(s, 7 + ml) IN
              IF dl = 0 \/ 7 + ml + dl - 1 # Len(s) THEN BadDate
              ELSE LET y == ToInt(s, 1, 4)
                       m == ToInt(s, 6, ml)
                       d == ToInt(s, 7 + ml, dl)
                   IN IF y < 1 \/ d > DaysInMonth(y, m) THEN BadDate
                      ELSE [ok |-> TRUE, y |-> y, m |-> m, d |-> d]

\* strptime_date on the callers' strings, computed once.
ParsedDates == [s \in DateStrs |-> strptime_date(s)]

parse_date(date_str) == ParsedDates[date_str]

\* date.__le__ / __lt__: comparison of (year, month, day).
DateLt(a, b) ==
    \/ a.y < b.y
    \/ a.y = b.y /\ a.m < b.m
    \/ a.y = b.y /\ a.m = b.m /\ a.d < b.d

\* Mutant of DateLe: the range check written with < for <=.
DateLe_Strict(a, b) == DateLt(a, b)

DateLe(a, b) == DateLt(a, b) \/ (a.y = b.y /\ a.m = b.m /\ a.d = b.d)

------------------------------------------------------------------------------
(* The database: the rooms and bookings tables.                            *)

\* The callers: the console menu of hotel.py and the window of hotel_gui.py.
Procs == {"console", "gui"}

Guests == {"Asha"}
\* "Suite" is a type no catalog room has.
RoomTypes == {"Single", "Deluxe", "Suite"}
ConcRoomTypes == {"Deluxe"}

\* SQL NULL, and the TEXT datetime.utcnow().isoformat() gives: the value of
\* the wall clock is not modelled, only that a timestamp is present.
Null == <<>>
UtcNow == <<"utcnow">>

BookingIds == 1 .. (MaxBookings + 1)

\* The rows init_db inserts; price in whole currency units.
SeedRooms ==
    << [room_type |-> "Single", room_number |-> "S101", price |-> 1500],
       [room_type |-> "Single", room_number |-> "S102", price |-> 1500],
       [room_type |-> "Double", room_number |-> "D201", price |-> 2500],
       [room_type |-> "Double", room_number |-> "D202", price |-> 2500],
       [room_type |-> "Deluxe", room_number |-> "L301", price |-> 4500] >>

\* room_number TEXT NOT NULL UNIQUE: some row of new has the room number of a
\* row of rms or of another row of new.
UniqueViolated(rms, new) ==
    \/ \E i \in 1 .. Len(rms), j \in 1 .. Len(new) :
          rms[i].room_number = new[j].room_number
    \/ \E i, j \in 1 .. Len(new) :
          i # j /\ new[i].room_number = new[j].room_number

\* The rows of new appended to rms: AUTOINCREMENT gives them the next ids in
\* order.
RECURSIVE AppendRooms(_, _)
AppendRooms(rms, new) ==
    IF new = <<>> THEN rms
    ELSE AppendRooms(
             Append(rms, [id |-> Len(rms) + 1,
                          room_type |-> Head(new).room_type,
                          room_number |-> Head(new).room_number,
                          price |-> Head(new).price]),
             Tail(new))

\* executemany INSERT INTO rooms in the transaction of the "with" block: a
\* row that violates UNIQUE raises sqlite3.IntegrityError and the block rolls
\* every row back.
InsertRooms(rms, new) ==
    IF UniqueViolated(rms, new) THEN rms ELSE AppendRooms(rms, new)

\* Lines 43-51 with count the result of SELECT COUNT(*) FROM rooms and rms the
\* table when the INSERT runs.
SeedIfEmpty(count, rms) ==
    IF count = 0 THEN InsertRooms(rms, SeedRooms) ELSE rms

\* How init_db ends: it returns, or its INSERT raises.
InitOutcome(count, rms) ==
    IF count = 0 /\ UniqueViolated(rms, SeedRooms) THEN "IntegrityError"
    ELSE "ok"

\* Mutant of InitDb: the catalog is emptied and seeded again on every call;
\* AUTOINCREMENT does not give an id a second time.
InitDb_Reseeds(rms) ==
    LET all == AppendRooms(rms, SeedRooms) IN
    SubSeq(all, Len(rms) + 1, Len(all))

\* init_db run from start to finish: the count is that of the table the
\* INSERT finds.
InitDb(rms) == SeedIfEmpty(Len(rms), rms)

\* The WHERE clause of the subquery of available_rooms, on one bookings row:
\* status='active' AND NOT (check_out <= ? OR check_in >= ?), the two
\* comparisons being comparisons of TEXT.
BlocksRequest(b, check_in, check_out) ==
    /\ b.status = "active"
    /\ ~(TextLe(b.check_out, check_in) \/ TextGe(b.check_in, check_out))

\* Mutant of available_rooms: the query has no room_type = ? condition.
available_rooms_AnyType(room_type, check_in, check_out) ==
    LET busy == {bookings[i].room_id : i \in
                    {j \in 1 .. Len(bookings) :
                        BlocksRequest(bookings[j], check_in, check_out)}}
        Free(r) == r.id \notin busy
    IN SelectSeq(rooms, Free)

\* Mutant of available_rooms: the rows come back in descending id order.
available_rooms_Descending(room_type, check_in, check_out) ==
    LET busy == {bookings[i].room_id : i \in
                    {j \in 1 .. Len(bookings) :
                        BlocksRequest(bookings[j], check_in, check_out)}}
        Free(r) == r.room_type = room_type /\ r.id \notin busy
        asc == SelectSeq(rooms, Free)
    IN [i \in 1 .. Len(asc) |-> asc[Len(asc) + 1 - i]]

\* available_rooms: the rooms of the type whose id is not in the subquery's
\* result, as the table scan yields them (rowid order).
available_rooms(room_type, check_in, check_out) ==
    LET busy == {bookings[i].room_id : i \in
                    {j \in 1 .. Len(bookings) :
                        BlocksRequest(bookings[j], check_in, check_out)}}
        Free(r) == r.room_type = room_type /\ r.id \notin busy
    IN SelectSeq(rooms, Free)

\* create_booking up to the choice of the room: which of its raise sites, if
\* any, ends the call.
CreateOutcome(room_type, check_in, check_out) ==
    LET ci == parse_date(check_in)
        co == parse_date(check_out)
    IN IF ~ci.ok \/ ~co.ok THEN "InvalidDate"
       ELSE IF DateLe(co, ci) THEN "InvalidRange"
       ELSE IF available_rooms(room_type, check_in, check_out) = <<>>
            THEN "NoAvailability"
       ELSE "ok"

\* Mutant of InsertBooking: the two date columns receive each other's value.
InsertBooking_SwappedDates(bks, room_id, guest_name, check_in, check_out, now) ==
    Append(bks, [id |-> Len(bks) + 1,
                 room_id |-> room_id,
                 guest_name |-> guest_name,
                 check_in |-> check_out,
                 check_out |-> check_in,
                 status |-> "active",
                 created_at |-> now,
                 cancelled_at |-> Null])

\* Mutant of InsertBooking: the position of the room in the result list
\* (avail[0] is position 0) is stored in place of room['id'].
InsertBooking_ListIndex(bks, room_id, guest_name, check_in, check_out, now) ==
    Append(bks, [id |-> Len(bks) + 1,
                 room_id |-> 0,
                 guest_name |-> guest_name,
                 check_in |-> check_in,
                 check_out |-> check_out,
                 status |-> "active",
                 created_at |-> now,
                 cancelled_at |-> Null])

\* INSERT INTO bookings (...) VALUES (?,?,?,?, 'active', ?): the new row gets
\* the next AUTOINCREMENT id; cancelled_at is left NULL.
InsertBooking(bks, room_id, guest_name, check_in, check_out, now) ==
    Append(bks, [id |-> Len(bks) + 1,
                 room_id |-> room_id,
                 guest_name |-> guest_name,
                 check_in |-> check_in,
                 check_out |-> check_out,
                 status |-> "active",
                 created_at |-> now,
                 cancelled_at |-> Null])

\* Mutant of CancelOutcome: the status of the row is not looked at.
CancelOutcome_NoStatusCheck(booking_id) ==
    IF booking_id \notin 1 .. Len(bookings) THEN "NotFound" ELSE "ok"

\* Mutant of CancelOutcome: a missing row is reported as already cancelled.
CancelOutcome_MissingAsCancelled(booking_id) ==
    IF booking_id \notin 1 .. Len(bookings) THEN "AlreadyCancelled"
    ELSE IF bookings[booking_id].status = "cancelled" THEN "AlreadyCancelled"
    ELSE "ok"

\* SELECT status FROM bookings WHERE id=? and the two checks on its row.
CancelOutcome(booking_id) ==
    IF booking_id \notin 1 .. Len(bookings) THEN "NotFound"
    ELSE IF bookings[booking_id].status = "cancelled" THEN "AlreadyCancelled"
    ELSE "ok"

\* Mutant of UpdateCancelled: the UPDATE has no WHERE clause.
UpdateCancelled_AllRows(bks, booking_id, now) ==
    [i \in 1 .. Len(bks) |->
        [bks[i] EXCEPT !.status = "cancelled", !.cancelled_at = now]]

\* Mutant of UpdateCancelled: the UPDATE sets the status alone.
UpdateCancelled_NoStamp(bks, booking_id, now) ==
    [i \in 1 .. Len(bks) |->
        IF bks[i].id = booking_id
        THEN [bks[i] EXCEPT !.status = "cancelled"]
        ELSE bks[i]]

\* UPDATE bookings SET status='cancelled', cancelled_at=? WHERE id=?
UpdateCancelled(bks, booking_id, now) ==
    [i \in 1 .. Len(bks) |->
        IF bks[i].id = booking_id
        THEN [bks[i] EXCEPT !.status = "cancelled", !.cancelled_at = now]
        ELSE bks[i]]

NoCall ==
    [op |-> "none", guest_name |-> "", room_type |-> "", check_in |-> <<>>,
     check_out |-> <<>>, booking_id |-> 0, room_id |-> 0, avail |-> <<>>,
     now |-> Null, count |-> 0, during |-> {}]

NoRet == [op |-> "none", kind |-> "none", booking_id |-> 0, room_id |-> 0]

Ret(op, kind, booking_id, room_id) ==
    [op |-> op, kind |-> kind, booking_id |-> booking_id, room_id |-> room_id]

RoomIds(rs) == [i \in 1 .. Len(rs) |-> rs[i].id]

\* A fresh database file and two front-ends that have not yet run the
\* "import hotel" with which each of them starts: the tables are empty.
Init ==
    /\ rooms = <<>>
    /\ bookings = <<>>
    /\ pc = [p \in Procs |-> "start"]
    /\ call = [p \in Procs |-> NoCall]
    /\ ret = [p \in Procs |-> NoRet]

------------------------------------------------------------------------------
(* The calls, each run from start to finish.                               *)

\* init_db: the call at import (hotel.py line 52), with which a front-end
\* starts, and every later call (hotel_gui.py line 19).  An exception at
\* import ends the front-end.
init_db(p) ==
    /\ pc[p] \in {"start", "idle"}
    /\ LET kind == InitOutcome(Len(rooms), rooms) IN
       /\ rooms' = InitDb(rooms)
       /\ ret' = [ret EXCEPT ![p] = Ret("init_db", kind, 0, 0)]
       /\ pc' = [pc EXCEPT ![p] = IF kind = "ok" THEN "idle" ELSE "crashed"]
    /\ UNCHANGED <<bookings, call>>

\* Mutant of create_booking: the range is checked after the INSERT, so a
\* request rejected for its range leaves its row behind.
create_booking_LateRangeCheck(p, guest_name, room_type, check_in, check_out) ==
    /\ pc[p] = "idle"
    /\ LET ci == parse_date(check_in)
           co == parse_date(check_out)
           avail == available_rooms(room_type, check_in, check_out)
       IN
       IF ~ci.ok \/ ~co.ok
       THEN /\ ret' = [ret EXCEPT ![p] = Ret("create_booking", "InvalidDate", 0, 0)]
            /\ UNCHANGED bookings
       ELSE IF avail = <<>>
       THEN /\ ret' = [ret EXCEPT ![p] = Ret("create_booking", "NoAvailability", 0, 0)]
            /\ UNCHANGED bookings
       ELSE /\ Len(bookings) < MaxBookings
            /\ bookings' = InsertBooking(bookings, avail[1].id, guest_name,
                                         check_in, check_out, UtcNow)
            /\ ret' = [ret EXCEPT ![p] =
                         IF DateLe(co, ci)
                         THEN Ret("create_booking", "InvalidRange", 0, 0)
                         ELSE Ret("create_booking", "ok", Len(bookings) + 1,
                                  avail[1].id)]
    /\ UNCHANGED <<rooms, pc, call>>

create_booking(p, guest_name, room_type, check_in, check_out) ==
    /\ pc[p] = "idle"
    /\ LET kind == CreateOutcome(room_type, check_in, check_out) IN
       IF kind = "ok"
       THEN LET room == available_rooms(room_type, check_in, check_out)[1] IN
            /\ Len(bookings) < MaxBookings
            /\ bookings' = InsertBooking(bookings, room.id, guest_name,
                                         check_in, check_out, UtcNow)
            /\ ret' = [ret EXCEPT ![p] =
                         Ret("create_booking", "ok", Len(bookings) + 1, room.id)]
       ELSE /\ ret' = [ret EXCEPT ![p] = Ret("create_booking", kind, 0, 0)]
            /\ UNCHANGED bookings
    /\ UNCHANGED <<rooms, pc, call>>

cancel_booking(p, booking_id) ==
    /\ pc[p] = "idle"
    /\ LET kind == CancelOutcome(booking_id) IN
       IF kind = "ok"
       THEN /\ bookings' = UpdateCancelled(bookings, booking_id, UtcNow)
            /\ ret' = [ret EXCEPT ![p] = Ret("cancel_booking", "ok", booking_id, 0)]
       ELSE /\ ret' = [ret EXCEPT ![p] = Ret("cancel_booking", kind, 0, 0)]
            /\ UNCHANGED bookings
    /\ UNCHANGED <<rooms, pc, call>>

------------------------------------------------------------------------------
(* The calls as the database sees them.  Every call opens its own          *)
(* connection; a SELECT runs outside any transaction, an INSERT or UPDATE  *)
(* opens one that the end of its "with" block commits.  So a call is two   *)
(* atomic steps, and the steps of another connection may come between.     *)

ArgsCreate(guest_name, room_type, check_in, check_out) ==
    [NoCall EXCEPT !.op = "create_booking", !.guest_name = guest_name,
                   !.room_type = room_type, !.check_in = check_in,
                   !.check_out = check_out]

ArgsCancel(booking_id) ==
    [NoCall EXCEPT !.op = "cancel_booking", !.booking_id = booking_id]

Running == Ret("none", "running", 0, 0)

\* Observation, not program state: call[p].during is the set of callers whose
\* present call was in flight when p's present call began.
InFlight == {q \in Procs : pc[q] \in {"seed", "insert", "update"}}

StartCall(p, args) ==
    [q \in Procs |->
        IF q = p THEN [args EXCEPT !.during = InFlight \ {p}]
        ELSE [call[q] EXCEPT !.during = @ \ {p}]]

ArgsInit(count) == [NoCall EXCEPT !.op = "init_db", !.count = count]

\* init_db, lines 39-43: CREATE TABLE IF NOT EXISTS, committed, then SELECT
\* COUNT(*) FROM rooms, which holds no lock once it has returned.
InitSelect(p) ==
    /\ pc[p] \in {"start", "idle"}
    /\ call' = StartCall(p, ArgsInit(Len(rooms)))
    /\ pc' = [pc EXCEPT ![p] = "seed"]
    /\ ret' = [ret EXCEPT ![p] = Running]
    /\ UNCHANGED <<rooms, bookings>>

\* init_db, lines 43-51: the INSERT of the seed rows when the count read was
\* 0, and the commit or the rollback at the end of the "with" block.  The
\* IntegrityError of a front-end that read 0 before the other one seeded
\* reaches its import and ends it.
InitInsert(p) ==
    /\ pc[p] = "seed"
    /\ LET kind == InitOutcome(call[p].count, rooms) IN
       /\ rooms' = SeedIfEmpty(call[p].count, rooms)
       /\ ret' = [ret EXCEPT ![p] = Ret("init_db", kind, 0, 0)]
       /\ pc' = [pc EXCEPT ![p] = IF kind = "ok" THEN "idle" ELSE "crashed"]
    /\ UNCHANGED <<bookings, call>>

\* The bookings the calls in flight are about to insert.
Inserting == Cardinality({p \in Procs : pc[p] = "insert"})

\* create_booking, lines 71-79: parse, compare, query, pick avail[0], read
\* the clock.
CreateCheck(p, guest_name, room_type, check_in, check_out) ==
    /\ pc[p] = "idle"
    /\ LET kind == CreateOutcome(room_type, check_in, check_out)
           args == ArgsCreate(guest_name, room_type, check_in, check_out)
       IN
       IF kind = "ok"
       THEN LET avail == available_rooms(room_type, check_in, check_out) IN
            /\ Len(bookings) + Inserting < MaxBookings
            /\ call' = StartCall(p, [args EXCEPT !.avail = RoomIds(avail),
                                                 !.room_id = avail[1].id,
                                                 !.now = UtcNow])
            /\ pc' = [pc EXCEPT ![p] = "insert"]
            /\ ret' = [ret EXCEPT ![p] = Running]
       ELSE /\ call' = StartCall(p, args)
            /\ ret' = [ret EXCEPT ![p] = Ret("create_booking", kind, 0, 0)]
            /\ UNCHANGED pc
    /\ UNCHANGED <<rooms, bookings>>

\* create_booking, lines 80-88: INSERT on a new connection, commit, return.
CreateInsert(p) ==
    /\ pc[p] = "insert"
    /\ bookings' = InsertBooking(bookings, call[p].room_id, call[p].guest_name,
                                 call[p].check_in, call[p].check_out, call[p].now)
    /\ call' = [call EXCEPT ![p].booking_id = Len(bookings) + 1]
    /\ ret' = [ret EXCEPT ![p] =
                 Ret("create_booking", "ok", Len(bookings) + 1, call[p].room_id)]
    /\ pc' = [pc EXCEPT ![p] = "idle"]
    /\ UNCHANGED rooms

\* cancel_booking, lines 91-99: SELECT the status, check it, read the clock.
CancelSelect(p, booking_id) ==
    /\ pc[p] = "idle"
    /\ LET kind == CancelOutcome(booking_id) IN
       IF kind = "ok"
       THEN /\ call' = StartCall(p, [ArgsCancel(booking_id) EXCEPT !.now = UtcNow])
            /\ pc' = [pc EXCEPT ![p] = "update"]
            /\ ret' = [ret EXCEPT ![p] = Running]
       ELSE /\ call' = StartCall(p, ArgsCancel(booking_id))
            /\ ret' = [ret EXCEPT ![p] = Ret("cancel_booking", kind, 0, 0)]
            /\ UNCHANGED pc
    /\ UNCHANGED <<rooms, bookings>>

\* cancel_booking, lines 100-101: UPDATE, commit, return True.
CancelUpdate(p) ==
    /\ pc[p] = "update"
    /\ bookings' = UpdateCancelled(bookings, call[p].booking_id, call[p].now)
    /\ ret' = [ret EXCEPT ![p] =
                 Ret("cancel_booking", "ok", call[p].booking_id, 0)]
    /\ pc' = [pc EXCEPT ![p] = "idle"]
    /\ UNCHANGED <<rooms, call>>

NextConc ==
    \/ \E p \in Procs : InitSelect(p)
    \/ \E p \in Procs : InitInsert(p)
    \/ \E p \in Procs, g \in Guests, t \in ConcRoomTypes,
          ci \in IsoDateStrs, co \in IsoDateStrs :
           CreateCheck(p, g, t, ci, co)
    \/ \E p \in Procs : CreateInsert(p)
    \/ \E p \in Procs, id \in BookingIds : CancelSelect(p, id)
    \/ \E p \in Procs : CancelUpdate(p)

SpecConc == Init /\ [][NextConc]_vars

Next ==
    \/ init_db("console")
    \/ \E g \in Guests, t \in RoomTypes, d \in DateArgs :
           create_booking("console", g, t, d[1], d[2])
    \/ \E id \in BookingIds : cancel_booking("console", id)

Spec == Init /\ [][Next]_vars

------------------------------------------------------------------------------
(* What the claims speak of.                                               *)

Console == "console"

Active(i) == bookings[i].status = "active"

\* The half-open intervals [ci1, co1) and [ci2, co2) of calendar dates, given
\* as date strings, intersect.
Intersect(ci1, co1, ci2, co2) ==
    /\ DateLt(parse_date(ci1), parse_date(co2))
    /\ DateLt(parse_date(ci2), parse_date(co1))

\* Booking i occupies room r during some day of [ci, co).
Occupies(i, r, ci, co) ==
    /\ Active(i)
    /\ bookings[i].room_id = r
    /\ Intersect(bookings[i].check_in, bookings[i].check_out, ci, co)

\* The present calls of p and q overlapped in time.
Concurrent(p, q) == q \in call[p].during \/ p \in call[q].during

Done(p, op) == pc[p] = "idle" /\ call[p].op = op /\ ret[p].op = op

------------------------------------------------------------------------------
\* C1: with the calls run one at a time, no two active bookings on the same
\* room have intersecting half-open intervals [check_in, check_out).
C1_NoDoubleBooking ==
    \A i, j \in 1 .. Len(bookings) :
        (i < j /\ Active(i) /\ Active(j)
              /\ bookings[i].room_id = bookings[j].room_id)
        => ~Intersect(bookings[i].check_in, bookings[i].check_out,
                      bookings[j].check_in, bookings[j].check_out)

\* C2: of two concurrent create_booking calls that ask for intersecting
\* intervals of a room type and that each found the same single free room,
\* exactly one succeeds, the other fails, and the room ends with exactly one
\* active booking over the interval.
C2_ExactlyOneAdmitted ==
    \A p, q \in Procs :
        (/\ p # q
         /\ Done(p, "create_booking") /\ Done(q, "create_booking")
         /\ Concurrent(p, q)
         /\ call[p].room_type = call[q].room_type
         /\ Len(call[p].avail) = 1 /\ call[q].avail = call[p].avail
         /\ Intersect(call[p].check_in, call[p].check_out,
                      call[q].check_in, call[q].check_out))
        => /\ (ret[p].kind = "ok") # (ret[q].kind = "ok")
           /\ Cardinality({i \in 1 .. Len(bookings) :
                  Occupies(i, call[p].avail[1],
                           call[p].check_in, call[p].check_out)}) = 1

\* C4: of two concurrent cancel_booking calls on the same booking, exactly
\* one succeeds and the other fails with AlreadyCancelled.
C4_ExactlyOneCancels ==
    \A p, q \in Procs :
        (/\ p # q
         /\ Done(p, "cancel_booking") /\ Done(q, "cancel_booking")
         /\ Concurrent(p, q)
         /\ call[p].booking_id = call[q].booking_id
         /\ call[p].booking_id \in 1 .. Len(bookings))
        => \/ ret[p].kind = "ok" /\ ret[q].kind = "AlreadyCancelled"
           \/ ret[q].kind = "ok" /\ ret[p].kind = "AlreadyCancelled"

\* C3: a cancelled booking stays cancelled, and a cancel_booking call on its
\* id fails with AlreadyCancelled.
C3_CancelIsFinal ==
    [][\A i \in 1 .. Len(bookings) :
          bookings[i].status = "cancelled"
          => /\ i <= Len(bookings')
             /\ bookings'[i].id = bookings[i].id
             /\ bookings'[i].status = "cancelled"
             /\ cancel_booking(Console, bookings[i].id)
                  => ret'[Console].kind = "AlreadyCancelled"]_vars

\* A second cancel of a cancelled booking was refused.
C3_Witness ==
    /\ ret[Console] = Ret("cancel_booking", "AlreadyCancelled", 0, 0)
    /\ \E i \in 1 .. Len(bookings) : bookings[i].status = "cancelled"

\* A date-string pair that parses and whose check_out is on or before its
\* check_in.
InvertedArgs ==
    {d \in DateArgs :
        /\ parse_date(d[1]).ok /\ parse_date(d[2]).ok
        /\ ~DateLt(parse_date(d[1]), parse_date(d[2]))}

RangesValid ==
    \A i \in 1 .. Len(bookings) :
        DateLt(parse_date(bookings[i].check_in), parse_date(bookings[i].check_out))

\* C5: every stored booking has check_out after check_in, and a request whose
\* check_out is on or before its check_in fails with InvalidRange and stores
\* nothing.
C5_RangeValid ==
    /\ [](/\ RangesValid
          /\ \A t \in RoomTypes, d \in InvertedArgs :
                CreateOutcome(t, d[1], d[2]) = "InvalidRange")
    /\ [][ret'[Console] = Ret("create_booking", "InvalidRange", 0, 0)
          => bookings' = bookings]_vars

\* A request was refused for its range while the ledger held a booking.
C5_Witness ==
    /\ ret[Console] = Ret("create_booking", "InvalidRange", 0, 0)
    /\ Len(bookings) > 0

\* C6: a create_booking call that fails (InvalidDate, InvalidRange or
\* NoAvailability) leaves the ledger and the catalog as they were.
C6_FailedCreateNoEffect ==
    [][(/\ ret'[Console].op = "create_booking"
        /\ ret'[Console].kind \in {"InvalidDate", "InvalidRange", "NoAvailability"})
       => bookings' = bookings /\ rooms' = rooms]_vars

\* A request was refused for want of a room while the ledger held bookings.
C6_Witness ==
    /\ ret[Console] = Ret("create_booking", "NoAvailability", 0, 0)
    /\ \E i \in 1 .. Len(bookings) : Active(i)

\* C7: cancel_booking on an id no booking has fails with NotFound, and a
\* failed cancel_booking changes no booking.
C7_FailedCancelNoEffect ==
    [][\A id \in BookingIds :
          cancel_booking(Console, id)
          => /\ (\A i \in 1 .. Len(bookings) : bookings[i].id # id)
                  => ret'[Console].kind = "NotFound"
             /\ ret'[Console].kind \in {"NotFound", "AlreadyCancelled"}
                  => bookings' = bookings]_vars

\* A cancel of an unknown id was refused while the ledger held a cancelled
\* booking.
C7_Witness ==
    /\ ret[Console] = Ret("cancel_booking", "NotFound", 0, 0)
    /\ \E i \in 1 .. Len(bookings) : bookings[i].status = "cancelled"

\* C8: a request with valid dates and check_out after check_in succeeds if
\* some room of the type has no active booking intersecting the requested
\* interval, and fails with NoAvailability if none has.
C8_SucceedsIffRoomFree ==
    [][\A g \in Guests, t \in RoomTypes, d \in DateArgs :
          (/\ create_booking(Console, g, t, d[1], d[2])
           /\ parse_date(d[1]).ok /\ parse_date(d[2]).ok
           /\ DateLt(parse_date(d[1]), parse_date(d[2])))
          => LET free == \E r \in 1 .. Len(rooms) :
                            /\ rooms[r].room_type = t
                            /\ \A i \in 1 .. Len(bookings) :
                                  ~Occupies(i, rooms[r].id, d[1], d[2])
             IN ret'[Console].kind = (IF free THEN "ok" ELSE "NoAvailability")]_vars

\* C9: an active booking that only touches a requested interval (it ends on
\* the day the request begins, or begins on the day the request ends) does
\* not count against the request in the availability query.
C9_TouchingNotBlocking ==
    \A i \in 1 .. Len(bookings), d \in DateArgs :
        (/\ Active(i)
         /\ parse_date(d[1]).ok /\ parse_date(d[2]).ok
         /\ DateLt(parse_date(d[1]), parse_date(d[2]))
         /\ \/ parse_date(bookings[i].check_out) = parse_date(d[1])
            \/ parse_date(bookings[i].check_in) = parse_date(d[2]))
        => ~BlocksRequest(bookings[i], d[1], d[2])

AscendingIds ==
    \A t \in RoomTypes, d \in DateArgs :
        LET av == available_rooms(t, d[1], d[2]) IN
        \A i, j \in 1 .. Len(av) : i < j => av[i].id < av[j].id

\* C10: available_rooms lists the rooms in ascending id order, and a
\* successful create_booking books the first of them, the one with the lowest
\* id.
C10_FirstFit ==
    /\ []AscendingIds
    /\ [][\A g \in Guests, t \in RoomTypes, d \in DateArgs :
             (/\ ret'[Console].op = "create_booking"
              /\ ret'[Console].kind = "ok"
              /\ create_booking(Console, g, t, d[1], d[2]))
             => LET av == available_rooms(t, d[1], d[2]) IN
                /\ av # <<>>
                /\ \A i \in 1 .. Len(av) : ret'[Console].room_id <= av[i].id
                /\ \E i \in 1 .. Len(av) : ret'[Console].room_id = av[i].id
                /\ bookings'[Len(bookings')].room_id = ret'[Console].room_id]_vars

\* The first room of the type was taken and the call booked the second.
C10_Witness ==
    /\ ret[Console].op = "create_booking" /\ ret[Console].kind = "ok"
    /\ ret[Console].room_id = 2
    /\ \E i \in 1 .. Len(bookings) : Active(i) /\ bookings[i].room_id = 1

\* C11: the room reference of every booking is the id of a room of the
\* catalog.
C11_RoomsExist ==
    \A i \in 1 .. Len(bookings) :
        \E r \in 1 .. Len(rooms) : rooms[r].id = bookings[i].room_id

\* The ledger holds bookings on two different rooms.
C11_Witness ==
    \E i, j \in 1 .. Len(bookings) : bookings[i].room_id # bookings[j].room_id

\* C12: a booking has a cancellation timestamp exactly when its status is
\* cancelled.
C12_StampIffCancelled ==
    \A i \in 1 .. Len(bookings) :
        /\ bookings[i].status \in {"active", "cancelled"}
        /\ (bookings[i].cancelled_at # Null) <=> (bookings[i].status = "cancelled")

\* The ledger holds an active booking and a cancelled one.
C12_Witness ==
    /\ \E i \in 1 .. Len(bookings) :
          bookings[i].status = "active" /\ bookings[i].cancelled_at = Null
    /\ \E i \in 1 .. Len(bookings) :
          bookings[i].status = "cancelled" /\ bookings[i].cancelled_at # Null

\* The columns of a booking that no statement of the program rewrites.
SameIdentity(b1, b2) ==
    /\ b1.id = b2.id
    /\ b1.room_id = b2.room_id
    /\ b1.guest_name = b2.guest_name
    /\ b1.check_in = b2.check_in
    /\ b1.check_out = b2.check_out
    /\ b1.created_at = b2.created_at

\* C13: no step removes a booking or changes the id, room, guest name,
\* check-in or check-out of an existing booking; a successful cancel_booking
\* changes the status and the cancellation timestamp of its target alone and
\* leaves every other booking and the catalog as they were.
C13_Frame ==
    [][/\ Len(bookings') >= Len(bookings)
       /\ \A i \in 1 .. Len(bookings) : SameIdentity(bookings'[i], bookings[i])
       /\ (/\ ret'[Console].op = "cancel_booking"
           /\ ret'[Console].kind = "ok")
          => /\ rooms' = rooms
             /\ Len(bookings') = Len(bookings)
             /\ \A i \in 1 .. Len(bookings) :
                   IF bookings[i].id = ret'[Console].booking_id
                   THEN /\ bookings'[i].status = "cancelled"
                        /\ bookings'[i].cancelled_at # Null
                   ELSE bookings'[i] = bookings[i]]_vars

\* A cancellation has succeeded while another booking is still active.
C13_Witness ==
    /\ ret[Console].op = "cancel_booking"
    /\ ret[Console].kind = "ok"
    /\ \E i, j \in 1 .. Len(bookings) :
          /\ bookings[i].id = ret[Console].booking_id
          /\ bookings[i].status = "cancelled"
          /\ bookings[j].status = "active"

\* C14: a successful create_booking adds exactly one booking, which is active,
\* has no cancellation timestamp, carries the requested guest name and dates
\* and the room that is returned, and whose returned id is greater than the id
\* of every booking already in the ledger.
C14_CreateAddsOne ==
    [][(/\ ret'[Console].op = "create_booking"
        /\ ret'[Console].kind = "ok")
       => /\ Len(bookings') = Len(bookings) + 1
          /\ \A i \in 1 .. Len(bookings) : bookings'[i] = bookings[i]
          /\ LET new == bookings'[Len(bookings')] IN
                /\ new.status = "active"
                /\ new.cancelled_at = Null
                /\ new.id = ret'[Console].booking_id
                /\ new.room_id = ret'[Console].room_id
                /\ \A i \in 1 .. Len(bookings) : bookings[i].id < new.id
                /\ \A g \in Guests, t \in RoomTypes, d \in DateArgs :
                      create_booking(Console, g, t, d[1], d[2])
                      => /\ new.guest_name = g
                         /\ new.check_in = d[1]
                         /\ new.check_out = d[2]]_vars

\* A booking has been created in a ledger that already held one.
C14_Witness ==
    /\ ret[Console].op = "create_booking"
    /\ ret[Console].kind = "ok"
    /\ ret[Console].booking_id = 2
    /\ Len(bookings) = 2
    /\ bookings[2].id = 2

\* The pairs of date strings that create_booking accepts as a request.
AcceptedArgs ==
    {d \in DateArgs : /\ parse_date(d[1]).ok /\ parse_date(d[2]).ok
                      /\ DateLt(parse_date(d[1]), parse_date(d[2]))}

\* C15: for every accepted pair of date strings, the comparison of the stored
\* and the requested strings in the availability query agrees with the
\* intersection of the half-open intervals of the parsed dates, so that
\* available_rooms lists a room of the type exactly when no active booking on
\* it intersects the requested interval.
C15_TextAgreesWithDates ==
    \A d \in AcceptedArgs :
        /\ \A i \in 1 .. Len(bookings) :
              BlocksRequest(bookings[i], d[1], d[2])
              <=> (Active(i) /\ Intersect(bookings[i].check_in,
                                          bookings[i].check_out, d[1], d[2]))
        /\ \A t \in RoomTypes, r \in 1 .. Len(rooms) :
              rooms[r].room_type = t
              => LET av == available_rooms(t, d[1], d[2]) IN
                 (\E k \in 1 .. Len(av) : av[k].id = rooms[r].id)
                 <=> (\A i \in 1 .. Len(bookings) :
                         ~Occupies(i, rooms[r].id, d[1], d[2]))

\* Booking i is active on a room of type t and intersects [d[1], d[2)),
\* and no other active booking on its room does.
OnlyOccupant(i, t, d) ==
    /\ Occupies(i, bookings[i].room_id, d[1], d[2])
    /\ \E r \in 1 .. Len(rooms) :
          rooms[r].id = bookings[i].room_id /\ rooms[r].room_type = t
    /\ \A j \in 1 .. Len(bookings) :
          j # i => ~Occupies(j, bookings[i].room_id, d[1], d[2])

\* C16: when a request would fail with NoAvailability and the cancellation
\* of an active booking that intersects it leaves that booking's room with no
\* active intersecting booking, the same request then succeeds, on a room that
\* has no active booking intersecting the requested interval.
C16_CancelFreesRoom ==
    [][(/\ ret'[Console].op = "cancel_booking"
        /\ ret'[Console].kind = "ok")
       => \A t \in RoomTypes, d \in AcceptedArgs, i \in 1 .. Len(bookings) :
             (/\ bookings[i].id = ret'[Console].booking_id
              /\ CreateOutcome(t, d[1], d[2]) = "NoAvailability"
              /\ OnlyOccupant(i, t, d))
             => /\ CreateOutcome(t, d[1], d[2])' = "ok"
                /\ \A j \in 1 .. Len(bookings) :
                      ~Occupies(j, available_rooms(t, d[1], d[2])[1].id,
                                d[1], d[2])']_vars

\* The room types asked for that no room of the catalog has.
AbsentTypes ==
    {t \in RoomTypes : \A r \in 1 .. Len(rooms) : rooms[r].room_type # t}

\* A step that ends in a successful create_booking for type t books a room
\* of type t.
BooksRequestedType ==
    (/\ ret'[Console].op = "create_booking"
     /\ ret'[Console].kind = "ok")
    => \A g \in Guests, t \in RoomTypes, d \in DateArgs :
          create_booking(Console, g, t, d[1], d[2])
          => \E r \in 1 .. Len(rooms) :
                /\ rooms[r].id = bookings'[Len(bookings')].room_id
                /\ rooms[r].room_type = t

\* C17: every booking is on a room of the type its create_booking call asked
\* for, and a request for a type that no catalog room has fails with
\* NoAvailability whatever its dates are.
C17_AbsentTypeAlwaysNoAvailability ==
    /\ [](\A t \in AbsentTypes, d \in DateArgs :
             CreateOutcome(t, d[1], d[2]) = "NoAvailability")
    /\ [][BooksRequestedType]_vars

\* C17, amended: every booking is on a room of the type its create_booking
\* call asked for; a request for a type that no catalog room has never
\* succeeds, and it fails with NoAvailability when its dates parse and its
\* check_out is after its check_in (a date that does not parse, or an empty
\* or inverted range, fails first, with InvalidDate or InvalidRange).
C17_TypeMatches ==
    /\ [](\A t \in AbsentTypes, d \in DateArgs :
             IF d \in AcceptedArgs
             THEN CreateOutcome(t, d[1], d[2]) = "NoAvailability"
             ELSE CreateOutcome(t, d[1], d[2]) \in {"InvalidDate", "InvalidRange"})
    /\ [][BooksRequestedType]_vars

\* A request has failed with NoAvailability although every booking of the
\* ledger, the first of them on the Deluxe room, is cancelled: the request was
\* for a type the catalog does not have.
C17_Witness ==
    /\ ret[Console] = Ret("create_booking", "NoAvailability", 0, 0)
    /\ AbsentTypes # {}
    /\ Len(bookings) >= 1
    /\ \E r \in 1 .. Len(rooms) :
          rooms[r].id = bookings[1].room_id /\ rooms[r].room_type = "Deluxe"
    /\ \A i \in 1 .. Len(bookings) : ~Active(i)

\* The catalog is the five seed rooms, numbered 1 to 5 in seed order.
SeededCatalog ==
    /\ Len(rooms) = Len(SeedRooms)
    /\ \A r \in 1 .. Len(rooms) :
          /\ rooms[r].id = r
          /\ rooms[r].room_type = SeedRooms[r].room_type
          /\ rooms[r].room_number = SeedRooms[r].room_number
          /\ rooms[r].price = SeedRooms[r].price

\* C18: init_db seeds the five rooms only into an empty catalog, so that
\* however often it is called, one call after the other, it returns with the
\* catalog holding the same rooms and ids and with the ledger unchanged; no
\* other operation modifies the catalog.
C18_BootstrapIdempotent ==
    /\ [](/\ pc[Console] # "start" => SeededCatalog
          /\ rooms # <<>> => (SeededCatalog /\ InitDb(rooms) = rooms))
    /\ [][/\ rooms # <<>> => rooms' = rooms
          /\ ret'[Console].op = "init_db"
             => /\ bookings' = bookings
                /\ ret'[Console].kind = "ok"
                /\ SeededCatalog']_vars

\* init_db has been called again on a seeded catalog with a booking in the
\* ledger.
C18_Witness ==
    /\ ret[Console] = Ret("init_db", "ok", 0, 0)
    /\ Len(rooms) = 5
    /\ \E i \in 1 .. Len(bookings) : Active(i)

====
